---- MODULE Spec2Model ----
(***************************************************************************)
(* Model of the ECIEM pipeline.                                            *)
(*   src/etl_load_postgres.py : DataLoader and main()  (specification Spec,*)
(*                              and SpecRerun for a repeated dimension     *)
(*                              load on the same store)                    *)
(*   src/ET.py                : paginated extraction    (SpecET)           *)
(* Text values are TLA+ strings; str.strip, str.upper, the date parse and  *)
(* the comment heuristics are computed character by character.             *)
(***************************************************************************)
EXTENDS Integers, Sequences, FiniteSets, TLC

\* ------------------------------------------------------------------ bounds
MaxRecs == 2
MaxEva == 1
MaxFallas == 1
MaxFilas == 3
MaxLimit == 2
MaxTotal == 4

\* ------------------------------------------------------- values and text
\* pandas reads an empty cell (and the literal NaN) as a missing value.
NA == "NaN"
\* None / SQL NULL for a surrogate key: SERIAL keys start at 1, and the code
\* tests keys by truthiness, which None and 0 both fail.
Null == 0
\* None for a date.
NoFecha == <<>>
\* A file that does not exist, and self.df_comentarios = None; Archivo(f) is
\* a file, or a data frame, with the rows f.
Ninguno == [ existe |-> FALSE, filas |-> <<>> ]
Archivo(f) == [ existe |-> TRUE, filas |-> f ]

LowerStr == "abcdefghijklmnopqrstuvwxyzáéíóúñ"
UpperStr == "ABCDEFGHIJKLMNOPQRSTUVWXYZÁÉÍÓÚÑ"
Digitos == "0123456789"

At(s, k) == SubSeq(s, k, k)
Chars(s) == { At(s, k) : k \in 1..Len(s) }

RECURSIVE LStrip(_)
LStrip(s) == IF Len(s) > 0 /\ At(s, 1) = " " THEN LStrip(SubSeq(s, 2, Len(s))) ELSE s
RECURSIVE RStrip(_)
RStrip(s) == IF Len(s) > 0 /\ At(s, Len(s)) = " " THEN RStrip(SubSeq(s, 1, Len(s) - 1)) ELSE s
\* str.strip; the first operator strips the left end only.
strip_solo_izquierda(s) == LStrip(s)
Strip(s) == RStrip(LStrip(s))

UpperChar(c) ==
    IF \E k \in 1..Len(LowerStr) : At(LowerStr, k) = c
    THEN At(UpperStr, CHOOSE k \in 1..Len(LowerStr) : At(LowerStr, k) = c)
    ELSE c
RECURSIVE Upper(_)
Upper(s) ==
    IF Len(s) = 0 THEN ""
    ELSE IF Len(s) = 1 THEN UpperChar(s)
    ELSE Upper(SubSeq(s, 1, Len(s) \div 2)) \o Upper(SubSeq(s, Len(s) \div 2 + 1, Len(s)))

LowerChar(c) ==
    IF \E k \in 1..Len(UpperStr) : At(UpperStr, k) = c
    THEN At(LowerStr, CHOOSE k \in 1..Len(UpperStr) : At(UpperStr, k) = c)
    ELSE c
RECURSIVE Lower(_)
Lower(s) ==
    IF Len(s) = 0 THEN ""
    ELSE IF Len(s) = 1 THEN LowerChar(s)
    ELSE Lower(SubSeq(s, 1, Len(s) \div 2)) \o Lower(SubSeq(s, Len(s) \div 2 + 1, Len(s)))
\* str.startswith
StartsWith(s, pre) == Len(s) >= Len(pre) /\ SubSeq(s, 1, Len(pre)) = pre

\* str.isupper: some cased character, and no lower-case one.
IsUpper(s) == /\ \E c \in Chars(s) : c \in Chars(UpperStr)
              /\ \A c \in Chars(s) : c \notin Chars(LowerStr)
\* str.isalpha: non-empty and letters only.
IsAlpha(s) == Len(s) > 0 /\ \A c \in Chars(s) : c \in Chars(LowerStr) \cup Chars(UpperStr)
\* str.replace(' ', '')
RECURSIVE SinEspacios(_)
SinEspacios(s) ==
    IF Len(s) = 0 THEN ""
    ELSE IF Len(s) = 1 THEN (IF s = " " THEN "" ELSE s)
    ELSE SinEspacios(SubSeq(s, 1, Len(s) \div 2))
            \o SinEspacios(SubSeq(s, Len(s) \div 2 + 1, Len(s)))
\* s[:n]
Prefijo(s, n) == IF Len(s) <= n THEN s ELSE SubSeq(s, 1, n)

IsDigit(c) == \E k \in 1..10 : At(Digitos, k) = c
DigitVal(c) == (CHOOSE k \in 1..10 : At(Digitos, k) = c) - 1
RECURSIVE ToInt(_)
ToInt(s) == IF Len(s) = 0 THEN 0
            ELSE ToInt(SubSeq(s, 1, Len(s) - 1)) * 10 + DigitVal(At(s, Len(s)))
AllDigits(s) == \A k \in 1..Len(s) : IsDigit(At(s, k))

DiasDelMes(y, m) ==
    IF m = 2 THEN (IF (y % 4 = 0 /\ y % 100 # 0) \/ y % 400 = 0 THEN 29 ELSE 28)
    ELSE IF m \in {4, 6, 9, 11} THEN 30 ELSE 31
\* pd.to_datetime(s).date() on the ISO texts the snapshots hold ("YYYY-MM-DD",
\* with or without a " HH:MM:SS" tail); anything else raises, which is NoFecha.
\* The first operator is the parse with no check of the calendar.
to_datetime_sin_calendario(s) ==
    LET f == IF Len(s) = 19 /\ At(s, 11) = " " THEN SubSeq(s, 1, 10) ELSE s
        ok == /\ Len(f) = 10
              /\ At(f, 5) = "-" /\ At(f, 8) = "-"
              /\ AllDigits(SubSeq(f, 1, 4)) /\ AllDigits(SubSeq(f, 6, 7))
              /\ AllDigits(SubSeq(f, 9, 10))
    IN  IF ~ok THEN NoFecha
        ELSE << ToInt(SubSeq(f, 1, 4)), ToInt(SubSeq(f, 6, 7)), ToInt(SubSeq(f, 9, 10)) >>
to_datetime(s) ==
    LET f == IF Len(s) = 19 /\ At(s, 11) = " " THEN SubSeq(s, 1, 10) ELSE s
        ok == /\ Len(f) = 10
              /\ At(f, 5) = "-" /\ At(f, 8) = "-"
              /\ AllDigits(SubSeq(f, 1, 4)) /\ AllDigits(SubSeq(f, 6, 7))
              /\ AllDigits(SubSeq(f, 9, 10))
    IN  IF ~ok THEN NoFecha
        ELSE LET y == ToInt(SubSeq(f, 1, 4))
                 m == ToInt(SubSeq(f, 6, 7))
                 d == ToInt(SubSeq(f, 9, 10))
             IN  IF y \in 1678..2261 /\ m \in 1..12 /\ d \in 1..DiasDelMes(y, m)
                 THEN <<y, m, d>> ELSE NoFecha

parse_fecha(fecha_str) ==
    IF fecha_str \in {NA, "", "0000-00-00", "0000-00-00 00:00:00"}
    THEN NoFecha
    ELSE to_datetime(fecha_str)

\* ------------------------------------------------------- CommentExtractor
columnas_comentarios ==
    << "r_2_1", "r_2_2", "r_2_3", "r_2_4", "r_2_5", "r_2_6", "r_2_8", "r_2_9",
       "r_2_10", "r_2_11", "r_2_12", "r_2_13", "r_2_14", "r_2_15" >>
excluir == {"A", "B", "C", "D", "Si", "SI", "NO", "No", "De acuerdo", "1", "2", "3"}
SinComentarios == "Sin comentarios específicos"
LargoMinimo == 10

\* The acceptance test of one trimmed value; the first operator is the test
\* with "at least" in place of "longer than".
EsComentarioReal_desde_diez(valor_limpio) ==
    /\ valor_limpio \notin excluir
    /\ Len(valor_limpio) >= LargoMinimo
    /\ ~IsUpper(valor_limpio)
    /\ ~IsAlpha(SinEspacios(valor_limpio))
    /\ \E c \in Chars(valor_limpio) : c \in {",", ".", " "}
EsComentarioReal(valor_limpio) ==
    /\ valor_limpio \notin excluir
    /\ Len(valor_limpio) > LargoMinimo
    /\ ~IsUpper(valor_limpio)
    /\ ~IsAlpha(SinEspacios(valor_limpio))
    /\ \E c \in Chars(valor_limpio) : c \in {",", ".", " "}

\* The accepted values of the columns k..14 of one row, in declaration order.
RECURSIVE ComentariosDesde(_, _)
ComentariosDesde(fila, k) ==
    IF k > Len(columnas_comentarios) THEN <<>>
    ELSE LET col == columnas_comentarios[k]
             resto == ComentariosDesde(fila, k + 1)
         IN  IF col \in DOMAIN fila /\ fila[col] # NA /\ EsComentarioReal(Strip(fila[col]))
             THEN <<Strip(fila[col])>> \o resto
             ELSE resto
RECURSIVE Join(_)
Join(cs) == IF Len(cs) = 1 THEN cs[1] ELSE cs[1] \o " | " \o Join(Tail(cs))
extraer_comentarios_reales_fila(fila) ==
    LET comentarios == ComentariosDesde(fila, 1)
    IN  IF comentarios # <<>> THEN Join(comentarios) ELSE SinComentarios

\* ----------------------------------------------------------- CareerMapper
CarreraIICG == "INGENIERIA EN INFORMACION Y CONTROL DE GESTION"
CarreraIC == "INGENIERIA COMERCIAL"
AliasIICG ==
    { "INGENIERIA EN INFORMACION Y CONTROL DE GESTION",
      "ING. EN INFORMACIÓN Y CONTROL DE GESTIÓN",
      "INGENIERÍA EN INFORMACIÓN Y CONTROL DE GESTIÓN",
      "ING. INFORMACION Y CONTROL DE GESTION",
      "INGENIERIA INFORMACION Y CONTROL GESTION",
      "IICG",
      "INGENIERIA EN INFORMACION Y CONTROL DE GESTIÓN" }
AliasIC ==
    { "INGENIERIA COMERCIAL", "ING. COMERCIAL", "INGENIERÍA COMERCIAL",
      "ING COMERCIAL", "IC" }
\* _mapear_carrera; the first operator is it without the strip().
mapear_carrera_sin_strip(nombre_carrera) ==
    IF nombre_carrera = NA THEN CarreraIICG
    ELSE IF Upper(nombre_carrera) \in AliasIC THEN CarreraIC
    ELSE CarreraIICG
mapear_carrera(nombre_carrera) ==
    IF nombre_carrera = NA THEN CarreraIICG
    ELSE LET carrera_limpia == Upper(Strip(nombre_carrera))
         IN  IF carrera_limpia \in AliasIC THEN CarreraIC
             ELSE CarreraIICG
carreras_oficiales == << CarreraIICG, CarreraIC >>

\* ------------------------------------------------------------ the inputs
\* Rows of ALUMN_PRACT.csv. Columns the loaders copy verbatim into one row
\* (address, city, e-mail, status, ...) are stood for by src, the position of
\* the record a row was built from.
R_Ana == [ rut_alum |-> "11-1", nomb_alum |-> "Ana", nomb_empr_prac |-> "Acme",
           act_econo_empresa |-> "Retail", fech_ini_prac |-> "2024-04-15",
           fech_fin_prac |-> "2024-07-01 00:00:00", carr_alum |-> "ing. comercial" ]
\* the person, organization and rubric of R_Ana once stripped
R_Eva == [ rut_alum |-> " 11-1", nomb_alum |-> "Eva", nomb_empr_prac |-> "Acme ",
           act_econo_empresa |-> "Retail ", fech_ini_prac |-> "2024-07-01",
           fech_fin_prac |-> "0000-00-00", carr_alum |-> NA ]
\* no organization, and a start date that does not parse
R_Leo == [ rut_alum |-> "22-2", nomb_alum |-> "Leo", nomb_empr_prac |-> NA,
           act_econo_empresa |-> NA, fech_ini_prac |-> "pronto",
           fech_fin_prac |-> NA, carr_alum |-> " IC " ]
\* no person identifier
R_SinRut == [ rut_alum |-> NA, nomb_alum |-> "Luz", nomb_empr_prac |-> "Bit",
              act_econo_empresa |-> NA, fech_ini_prac |-> "2024-04-15",
              fech_fin_prac |-> NA, carr_alum |-> "IICG" ]
\* no name: estudiante.nombre is NOT NULL
R_SinNombre == [ rut_alum |-> "33-3", nomb_alum |-> NA, nomb_empr_prac |-> "Bit",
                 act_econo_empresa |-> NA, fech_ini_prac |-> "0000-00-00",
                 fech_fin_prac |-> NA, carr_alum |-> "IICG" ]
Registros == { R_Ana, R_Eva, R_Leo, R_SinRut, R_SinNombre }

\* Rows of alumn_pract_eva_jef.csv (the columns of it the extractor reads).
TextoLargo ==
    "El alumno cumple con los plazos, trabaja con cuidado y aprende rapido. " \o
    "El alumno cumple con los plazos, trabaja con cuidado y aprende rapido. " \o
    "El alumno cumple con los plazos, trabaja con cuidado y aprende rapido."
E_Corta == [ r_2_1 |-> "Si", r_2_2 |-> "B", r_2_5 |-> "1234567890123" ]
E_Real == [ r_2_1 |-> " Buen trabajo, muy puntual. ", r_2_2 |-> "EXCELENTE DESEMPEÑO.",
            r_2_5 |-> TextoLargo ]
Evaluaciones == { E_Corta, E_Real }

\* The sequences over S of length at most n, and those with no element twice:
\* the rows of one provider table are distinct records.
SeqsHasta(S, n) == UNION { [1..k -> S] : k \in 0..n }
SinRepetir(S, n) ==
    { f \in SeqsHasta(S, n) : \A a, b \in 1..Len(f) : a # b => f[a] # f[b] }

\* ---------------------------------------------------------------- schema
tables_creation ==
    << "rubro", "empresa", "carrera", "estudiante", "tiempo",
       "evaluacion_empresa", "practica", "hechos" >>
Tablas == { tables_creation[k] : k \in 1..Len(tables_creation) }
Vacia == [ t \in Tablas |-> <<>> ]
Ceros == [ t \in Tablas |-> 0 ]
\* What an earlier run left in the store.
DbPrevia ==
    [ Vacia EXCEPT
        !["practica"] = << [ id |-> 1, id_carrera |-> Null, fechainicio |-> NoFecha,
                             fechafin |-> NoFecha, src |-> 0 ] >>,
        !["evaluacion_empresa"] = << [ id |-> 1, comentario |-> "Evaluación 1: previa" ] >> ]
SerialPrevia == [ Ceros EXCEPT !["practica"] = 1, !["evaluacion_empresa"] = 1 ]

VARIABLES
    pc,               \* where main() and the loader it is in stand
    i,                \* position (from 1) in the loop of the current loader
    rubros,           \* _load_rubro: values still to insert
    empresas_unicas,  \* _load_empresa: names seen in this pass
    fechas_unicas,    \* _load_tiempo: dates still to insert
    csv_alumn,        \* data/ALUMN_PRACT.csv: Ninguno or its rows
    csv_eva,          \* data/alumn_pract_eva_jef.csv: Ninguno or its rows
    df_comentarios,   \* self.df_comentarios: Ninguno or the synthesized column
    conn, cur,        \* self.conn, self.cur: "none", "open", "closed"
    tablas,           \* the tables that exist in the store
    db,               \* the rows of each table, in key order
    serial,           \* the last value each SERIAL sequence gave out
    fallas,           \* store failures injected so far
    errores,          \* store statements that failed (log.error)
    avisos,           \* record indices _load_hechos warned about, in order
    iterados,         \* per loader, loop iterations that ran to their end
    pasadas,          \* calls of load_dimension_tables so far
    \* ET.py
    epc,              \* where main() of ET.py stands
    tabla_n,          \* position in TABLAS of the table being extracted
    offset, acumulado, pagina,   \* the locals of descargar_tabla
    pedidos,          \* the offsets requested for the current table, in order
    informados,       \* the totals the responses for the current table reported
    proveedor,        \* the rows the provider holds, per table
    limit,            \* the page size main passes to descargar_tabla
    data,             \* the snapshot files written, per table
    fallidas,         \* the tables whose extraction raised
    llamada           \* a direct call of one function: its name, argument, result

locales == << i, rubros, empresas_unicas, fechas_unicas >>
entradas == << csv_alumn, csv_eva >>
conexion == << conn, cur >>
almacen == << tablas, db, serial >>
cargador == << pc, locales, entradas, df_comentarios, conexion, almacen, fallas,
               errores, avisos, iterados, pasadas >>
extractor == << epc, tabla_n, offset, acumulado, pagina, pedidos, informados,
                proveedor, limit, data, fallidas >>
vars == << cargador, extractor, llamada >>

\* No function is being called directly.
SinLlamada == [ fn |-> "none", arg |-> "", res |-> "", vuelta |-> FALSE ]

\* ------------------------------------------------------------- the store
Filas(d, t) == { d[t][k] : k \in 1..Len(d[t]) }
PuedeFallar(n) == fallas + n <= MaxFallas
Uno(b) == IF b THEN 1 ELSE 0

\* execute_query on an INSERT into t: the row takes the next SERIAL value
\* and is appended, unless the statement fails (ok = FALSE, rolled back) or
\* ON CONFLICT DO NOTHING drops it. A sequence value drawn is not given back:
\* gasta says whether the statement drew one. The first operator is the
\* INSERT without its ON CONFLICT clause and without the UNIQUE constraint.
execute_insert_duplica(d, s, t, fila, conflicto, falla, gasta) ==
    [ ok |-> ~falla,
      id |-> IF falla THEN Null ELSE s[t] + 1,
      db |-> IF falla THEN d
             ELSE [d EXCEPT ![t] = Append(@, [fila EXCEPT !.id = s[t] + 1])],
      serial |-> IF gasta THEN [s EXCEPT ![t] = @ + 1] ELSE s ]
execute_insert(d, s, t, fila, conflicto, falla, gasta) ==
    [ ok |-> ~falla,
      id |-> IF falla \/ conflicto THEN Null ELSE s[t] + 1,
      db |-> IF falla \/ conflicto THEN d
             ELSE [d EXCEPT ![t] = Append(@, [fila EXCEPT !.id = s[t] + 1])],
      serial |-> IF gasta THEN [s EXCEPT ![t] = @ + 1] ELSE s ]

\* cur.fetchone() after a SELECT by natural key: a key of a matching row, or
\* None when there is none.
fetchone(ids) == IF ids = {} THEN {Null} ELSE ids

get_id_rubro(d, nombre) ==
    fetchone({ r.id : r \in { x \in Filas(d, "rubro") : x.nombrerubro = nombre } })
get_id_carrera(d, nombre) ==
    fetchone({ r.id : r \in { x \in Filas(d, "carrera") : x.nombrecarrera = nombre } })
get_id_estudiante_por_rut(d, rut) ==
    fetchone({ r.id : r \in { x \in Filas(d, "estudiante") : x.rut_alumno = rut } })
get_id_empresa_por_nombre(d, nombre) ==
    fetchone({ r.id : r \in { x \in Filas(d, "empresa") : x.nombre = nombre } })
get_id_tiempo_por_fecha(d, fecha) ==
    IF fecha = NoFecha THEN {Null}
    ELSE fetchone({ r.id : r \in { x \in Filas(d, "tiempo") : x.fechacompleta = fecha } })
\* ORDER BY id_practica LIMIT 1 OFFSET index: rows are kept in key order. The
\* first operator is the lookup were OFFSET counted from one.
get_id_practica_desde_uno(d, index) ==
    IF index <= Len(d["practica"]) /\ index >= 1 THEN d["practica"][index].id ELSE Null
\* The lookup that would notice a skipped record: the row built from the
\* record itself, or None.
get_id_practica_del_registro(d, index) ==
    IF \E q \in Filas(d, "practica") : q.src = index
    THEN (CHOOSE q \in Filas(d, "practica") : q.src = index).id
    ELSE Null
get_id_practica_por_indice(d, index) ==
    IF index + 1 <= Len(d["practica"]) THEN d["practica"][index + 1].id ELSE Null

\* _obtener_comentario_por_indice; the first operator is it without the
\* [:200] cut.
LargoComentario == 200
obtener_comentario_entero(index) ==
    IF /\ df_comentarios.existe
       /\ index < Len(df_comentarios.filas)
       /\ df_comentarios.filas[index + 1] # ""
       /\ df_comentarios.filas[index + 1] # SinComentarios
    THEN "Evaluación " \o ToString(index + 1) \o ": " \o df_comentarios.filas[index + 1]
    ELSE "Evaluación profesional " \o ToString(index + 1) \o " - Práctica estudiantil"
obtener_comentario_por_indice(index) ==
    IF /\ df_comentarios.existe
       /\ index < Len(df_comentarios.filas)
       /\ df_comentarios.filas[index + 1] # ""
       /\ df_comentarios.filas[index + 1] # SinComentarios
    THEN "Evaluación " \o ToString(index + 1) \o ": "
            \o Prefijo(df_comentarios.filas[index + 1], LargoComentario)
    ELSE "Evaluación profesional " \o ToString(index + 1) \o " - Práctica estudiantil"

\* ------------------------------------------------------ the loaders' sets
\* pd.notna(row.get('rut_alum')): the record has a person identifier. The
\* second operator is the guard left out, every record taken as having one.
rut_siempre_presente(row) == TRUE
notna_rut(row) == row.rut_alum # NA

\* The rows of ALUMN_PRACT.csv a loader goes through: none when the file is
\* missing (the loader logs that and returns).
df == csv_alumn.filas
Largo == Len(df)
RubrosDe(f) ==
    { r \in { f[k].act_econo_empresa : k \in 1..Len(f) } : r # NA /\ Strip(r) # "" }
FechasDe(f) ==
    { parse_fecha(x) :
        x \in { f[k].fech_ini_prac : k \in 1..Len(f) }
              \cup { f[k].fech_fin_prac : k \in 1..Len(f) } } \ {NoFecha}
Comentarios(eva) ==
    IF ~eva.existe THEN Ninguno
    ELSE Archivo([ k \in 1..Len(eva.filas) |->
                     extraer_comentarios_reales_fila(eva.filas[k]) ])

\* A loader (or a step of main) begins: its loop starts at the first record.
Entrar(l) ==
    /\ pc' = l
    /\ i' = 1
    /\ rubros' = IF l = "rubro" THEN RubrosDe(df) ELSE {}
    /\ empresas_unicas' = {}
    /\ fechas_unicas' = IF l = "tiempo" THEN FechasDe(df) ELSE {}
Iterado(l) == iterados' = [iterados EXCEPT ![l] = @ + 1]
Loaders == { "empresa", "estudiante", "practica", "hechos" }

\* ------------------------------------------------------------------ Init
InitExtractorIdle ==
    /\ epc = "idle" /\ tabla_n = 1 /\ offset = 0 /\ acumulado = <<>>
    /\ pagina = 1 /\ pedidos = <<>> /\ informados = <<>>
    /\ proveedor = <<>> /\ limit = 1
    /\ data = <<>> /\ fallidas = {}

Init ==
    /\ pc = "connect"
    /\ i = 1 /\ rubros = {} /\ empresas_unicas = {} /\ fechas_unicas = {}
    /\ csv_alumn \in {Ninguno} \cup { Archivo(f) : f \in SinRepetir(Registros, MaxRecs) }
    /\ csv_eva \in {Ninguno} \cup { Archivo(f) : f \in SinRepetir(Evaluaciones, MaxEva) }
    /\ df_comentarios = Ninguno
    /\ conn = "none" /\ cur = "none"
    /\ tablas = Tablas /\ db = DbPrevia /\ serial = SerialPrevia
    /\ fallas = 0 /\ errores = 0 /\ avisos = <<>>
    /\ iterados = [ l \in Loaders |-> 0 ]
    /\ pasadas = 0
    /\ InitExtractorIdle
    /\ llamada = SinLlamada

\* The start of a run whose dimension load is repeated: the evaluation file
\* has no part in the dimension tables, and is taken with its one row.
InitRerun ==
    /\ Init
    /\ csv_eva = Archivo(<< E_Real >>)

\* ---------------------------------------------------------------- main()
\* loader.connect(): psycopg2.connect or conn.cursor() may raise; main's
\* except logs it and its finally disconnects.
connect ==
    /\ pc = "connect"
    /\ \/ /\ conn' = "open" /\ cur' = "open"
          /\ Entrar("drop")
          /\ UNCHANGED << fallas, errores >>
       \/ /\ PuedeFallar(1)
          /\ \E abierta \in BOOLEAN :
                conn' = (IF abierta THEN "open" ELSE "none")
          /\ cur' = "none"
          /\ Entrar("disconnect")
          /\ fallas' = fallas + 1 /\ errores' = errores + 1
    /\ UNCHANGED << entradas, df_comentarios, almacen, avisos, iterados, pasadas,
                    extractor, llamada >>

\* drop_existing_tables(): a DROP that raises is warned about and skipped, so
\* that table stays; the commit after the loop is outside every try.
drop_existing_tables ==
    /\ pc = "drop"
    /\ \/ \E quedan \in SUBSET tablas :
             /\ PuedeFallar(Cardinality(quedan))
             /\ tablas' = quedan
             /\ db' = [ t \in Tablas |-> IF t \in quedan THEN db[t] ELSE <<>> ]
             /\ serial' = [ t \in Tablas |-> IF t \in quedan THEN serial[t] ELSE 0 ]
             /\ fallas' = fallas + Cardinality(quedan)
             /\ errores' = errores
             /\ Entrar("create")
       \/ /\ PuedeFallar(1)
          /\ fallas' = fallas + 1 /\ errores' = errores + 1
          /\ Entrar("disconnect")
          /\ UNCHANGED almacen
    /\ UNCHANGED << entradas, df_comentarios, conexion, avisos, iterados, pasadas,
                    extractor, llamada >>

\* create_tables(): one CREATE TABLE per turn of the loop; the first that
\* fails raises, and main goes to its finally. The first action is the loop
\* without its raise: a failed CREATE is logged and the loop goes on.
create_tables_sin_raise ==
    /\ pc = "create"
    /\ LET t == tables_creation[i]
       IN  \E falla \in BOOLEAN :
              /\ falla => PuedeFallar(1)
              /\ IF falla \/ t \in tablas
                 THEN /\ fallas' = fallas + Uno(falla) /\ errores' = errores + 1
                      /\ UNCHANGED almacen
                 ELSE /\ tablas' = tablas \cup {t}
                      /\ db' = [db EXCEPT ![t] = <<>>]
                      /\ serial' = [serial EXCEPT ![t] = 0]
                      /\ UNCHANGED << fallas, errores >>
              /\ IF i = Len(tables_creation)
                 THEN Entrar("extraer")
                 ELSE /\ i' = i + 1
                      /\ UNCHANGED << pc, rubros, empresas_unicas, fechas_unicas >>
    /\ UNCHANGED << entradas, df_comentarios, conexion, avisos, iterados, pasadas,
                    extractor, llamada >>
create_tables ==
    /\ pc = "create"
    /\ LET t == tables_creation[i]
       IN  \E falla \in BOOLEAN :
              /\ falla => PuedeFallar(1)
              /\ IF falla \/ t \in tablas
                 THEN /\ Entrar("disconnect")
                      /\ fallas' = fallas + Uno(falla) /\ errores' = errores + 1
                      /\ UNCHANGED almacen
                 ELSE /\ tablas' = tablas \cup {t}
                      /\ db' = [db EXCEPT ![t] = <<>>]
                      /\ serial' = [serial EXCEPT ![t] = 0]
                      /\ IF i = Len(tables_creation)
                         THEN Entrar("extraer")
                         ELSE /\ i' = i + 1
                              /\ UNCHANGED << pc, rubros, empresas_unicas, fechas_unicas >>
                      /\ UNCHANGED << fallas, errores >>
    /\ UNCHANGED << entradas, df_comentarios, conexion, avisos, iterados, pasadas,
                    extractor, llamada >>

\* extraer_comentarios_reales(): None when the file is missing.
extraer_comentarios_reales ==
    /\ pc = "extraer"
    /\ df_comentarios' = Comentarios(csv_eva)
    /\ Entrar("dims")
    /\ UNCHANGED << entradas, conexion, almacen, fallas, errores, avisos, iterados,
                    pasadas, extractor, llamada >>

\* load_dimension_tables(): extracts the comments if there are none yet, then
\* runs the dimension loaders in order, _load_rubro first.
load_dimension_tables ==
    /\ pc = "dims"
    /\ df_comentarios' =
          IF ~df_comentarios.existe THEN Comentarios(csv_eva) ELSE df_comentarios
    /\ pasadas' = pasadas + 1
    /\ Entrar("rubro")
    /\ UNCHANGED << entradas, conexion, almacen, fallas, errores, avisos, iterados,
                    extractor, llamada >>

\* ------------------------------------------------------ dimension loaders
\* What an execute_query call leaves: the store, and the count of failures.
Deja(r, falla) ==
    /\ db' = r.db
    /\ serial' = r.serial
    /\ fallas' = fallas + Uno(falla)
    /\ errores' = errores + Uno(~r.ok)
    /\ UNCHANGED tablas
\* A statement sent with self.cur.execute raises: the loader's own except
\* logs it and the loader returns; l is what main runs next.
Aborta(l) ==
    /\ PuedeFallar(1)
    /\ fallas' = fallas + 1
    /\ errores' = errores + 1
    /\ Entrar(l)
    /\ UNCHANGED << almacen, iterados >>
Termina(l) ==
    /\ Entrar(l)
    /\ UNCHANGED << almacen, fallas, errores, iterados >>
Salta(l) ==
    /\ i' = i + 1
    /\ Iterado(l)
    /\ UNCHANGED << pc, rubros, empresas_unicas, fechas_unicas, almacen, fallas, errores >>

load_rubro ==
    /\ pc = "rubro"
    /\ \/ \E rubro \in rubros, falla \in BOOLEAN :
             /\ falla => PuedeFallar(1)
             /\ LET nombre == Strip(rubro)
                    conflicto == \E x \in Filas(db, "rubro") : x.nombrerubro = nombre
                IN  Deja(execute_insert(db, serial, "rubro",
                                        [ id |-> 0, nombrerubro |-> nombre ],
                                        conflicto, falla, TRUE), falla)
             /\ rubros' = rubros \ {rubro}
             /\ UNCHANGED << pc, i, empresas_unicas, fechas_unicas, iterados >>
       \/ /\ rubros = {}
          /\ Termina("empresa")
    /\ UNCHANGED << entradas, df_comentarios, conexion, avisos, pasadas, extractor, llamada >>

load_empresa ==
    /\ pc = "empresa"
    /\ \/ /\ i <= Largo
          /\ LET row == df[i]
                 nombre_empresa == Strip(row.nomb_empr_prac)
             IN  IF row.nomb_empr_prac = NA \/ nombre_empresa \in empresas_unicas
                 THEN Salta("empresa")
                 ELSE \E id_rubro \in (IF row.act_econo_empresa # NA
                                       THEN get_id_rubro(db, Strip(row.act_econo_empresa))
                                       ELSE {Null}),
                         falla \in BOOLEAN :
                        /\ falla => PuedeFallar(1)
                        /\ Deja(execute_insert(db, serial, "empresa",
                                    [ id |-> 0, nombre |-> nombre_empresa,
                                      id_rubro |-> id_rubro, src |-> i - 1 ],
                                    FALSE, falla, TRUE), falla)
                        /\ empresas_unicas' = empresas_unicas \cup {nombre_empresa}
                        /\ i' = i + 1
                        /\ Iterado("empresa")
                        /\ UNCHANGED << pc, rubros, fechas_unicas >>
       \/ /\ i <= Largo
          /\ df[i].nomb_empr_prac # NA
          /\ Strip(df[i].nomb_empr_prac) \notin empresas_unicas
          /\ df[i].act_econo_empresa # NA
          /\ Aborta("carrera")
       \/ /\ i > Largo
          /\ Termina("carrera")
    /\ UNCHANGED << entradas, df_comentarios, conexion, avisos, pasadas, extractor, llamada >>

load_carrera ==
    /\ pc = "carrera"
    /\ \/ /\ i <= Len(carreras_oficiales)
          /\ \E falla \in BOOLEAN :
                /\ falla => PuedeFallar(1)
                /\ LET nombre_oficial == carreras_oficiales[i]
                       conflicto == \E x \in Filas(db, "carrera") :
                                       x.nombrecarrera = nombre_oficial
                   IN  Deja(execute_insert(db, serial, "carrera",
                                [ id |-> 0, nombrecarrera |-> nombre_oficial,
                                  escuela |-> "Escuela de Ciencias Empresariales" ],
                                conflicto, falla, TRUE), falla)
          /\ i' = i + 1
          /\ UNCHANGED << pc, rubros, empresas_unicas, fechas_unicas, iterados >>
       \/ /\ i > Len(carreras_oficiales)
          /\ Termina("estudiante")
    /\ UNCHANGED << entradas, df_comentarios, conexion, avisos, pasadas, extractor, llamada >>

\* estudiante.nombre is NOT NULL: a record with no name makes the INSERT fail.
load_estudiante ==
    /\ pc = "estudiante"
    /\ \/ /\ i <= Largo
          /\ LET row == df[i]
                 rut == Strip(row.rut_alum)
                 conflicto == \E x \in Filas(db, "estudiante") : x.rut_alumno = rut
                 sin_nombre == row.nomb_alum = NA
             IN  IF ~notna_rut(row)
                 THEN Salta("estudiante")
                 ELSE \E falla \in BOOLEAN :
                        /\ falla => PuedeFallar(1) /\ ~sin_nombre
                        /\ Deja(execute_insert(db, serial, "estudiante",
                                    [ id |-> 0, rut_alumno |-> rut,
                                      nombre |-> Strip(row.nomb_alum), src |-> i - 1 ],
                                    conflicto, falla \/ sin_nombre, TRUE), falla)
                        /\ i' = i + 1
                        /\ Iterado("estudiante")
                        /\ UNCHANGED << pc, rubros, empresas_unicas, fechas_unicas >>
       \/ /\ i > Largo
          /\ Termina("tiempo")
    /\ UNCHANGED << entradas, df_comentarios, conexion, avisos, pasadas, extractor, llamada >>

\* The quarter without the shift of the month to zero.
trimestre_sin_desplazar(mes) == mes \div 3 + 1
trimestre(mes) == (mes - 1) \div 3 + 1
semestre(mes) == IF mes <= 6 THEN 1 ELSE 2

load_tiempo ==
    /\ pc = "tiempo"
    /\ \/ \E fecha \in fechas_unicas, falla \in BOOLEAN :
             /\ falla => PuedeFallar(1)
             /\ LET anno == fecha[1]
                    mes == fecha[2]
                    conflicto == \E x \in Filas(db, "tiempo") : x.fechacompleta = fecha
                IN  Deja(execute_insert(db, serial, "tiempo",
                             [ id |-> 0, anno |-> anno, mes |-> mes,
                               trimestre |-> trimestre(mes), semestre |-> semestre(mes),
                               fechacompleta |-> fecha ],
                             conflicto, falla, TRUE), falla)
             /\ fechas_unicas' = fechas_unicas \ {fecha}
             /\ UNCHANGED << pc, i, rubros, empresas_unicas, iterados >>
       \/ /\ fechas_unicas = {}
          /\ Termina("practica")
    /\ UNCHANGED << entradas, df_comentarios, conexion, avisos, pasadas, extractor, llamada >>

\* One practica row per record, in snapshot order. horaspractica, estatus and
\* modalidad are functions of the record alone (src).
load_practica ==
    /\ pc = "practica"
    /\ \/ /\ i <= Largo
          /\ LET row == df[i]
             IN  \E id_carrera \in (IF row.carr_alum # NA
                                    THEN get_id_carrera(db, mapear_carrera(row.carr_alum))
                                    ELSE {Null}),
                    falla \in BOOLEAN :
                   /\ falla => PuedeFallar(1)
                   /\ Deja(execute_insert(db, serial, "practica",
                               [ id |-> 0, id_carrera |-> id_carrera,
                                 fechainicio |-> parse_fecha(row.fech_ini_prac),
                                 fechafin |-> parse_fecha(row.fech_fin_prac),
                                 src |-> i - 1 ],
                               FALSE, falla, TRUE), falla)
                   /\ i' = i + 1
                   /\ Iterado("practica")
                   /\ UNCHANGED << pc, rubros, empresas_unicas, fechas_unicas >>
       \/ /\ i <= Largo
          /\ df[i].carr_alum # NA
          /\ Aborta("facts")
       \/ /\ i > Largo
          /\ Termina("facts")
    /\ UNCHANGED << entradas, df_comentarios, conexion, avisos, pasadas, extractor, llamada >>

\* ------------------------------------------------------------ fact loader
load_fact_table ==
    /\ pc = "facts"
    /\ Termina("hechos")
    /\ UNCHANGED << entradas, df_comentarios, conexion, avisos, pasadas, extractor, llamada >>

\* The Fact INSERT is sent: the keys found for the record are all truthy. The
\* first operator is the test without the Person key.
InsertaHecho_sin_estudiante(id_estudiante, id_practica, id_evaluacionempresa) ==
    id_practica # Null /\ id_evaluacionempresa # Null
InsertaHecho(id_estudiante, id_practica, id_evaluacionempresa) ==
    id_estudiante # Null /\ id_practica # Null /\ id_evaluacionempresa # Null

load_hechos ==
    /\ pc = "hechos"
    /\ \/ /\ i <= Largo
          /\ ~notna_rut(df[i])
          /\ Salta("hechos")
          /\ UNCHANGED avisos
       \/ /\ i <= Largo
          /\ notna_rut(df[i])
          /\ Aborta("disconnect")
          /\ UNCHANGED avisos
       \/ /\ i <= Largo
          /\ notna_rut(df[i])
          /\ LET index == i - 1
                 row == df[i]
             IN  \E id_estudiante \in get_id_estudiante_por_rut(db, Strip(row.rut_alum)),
                    id_empresa \in (IF row.nomb_empr_prac # NA
                                    THEN get_id_empresa_por_nombre(db, Strip(row.nomb_empr_prac))
                                    ELSE {Null}),
                    id_tiempo \in get_id_tiempo_por_fecha(db, parse_fecha(row.fech_ini_prac)),
                    fe \in BOOLEAN, ge \in BOOLEAN, fh \in BOOLEAN, gh \in BOOLEAN :
                   LET id_practica == get_id_practica_por_indice(db, index)
                       comentario == obtener_comentario_por_indice(index)
                       ev == execute_insert(db, serial, "evaluacion_empresa",
                                 [ id |-> 0, comentario |-> comentario ], FALSE, fe, ge)
                       \* "Fallback" when the Evaluation INSERT failed
                       id_evaluacionempresa == IF ev.ok THEN ev.id ELSE index + 1
                       inserta == InsertaHecho(id_estudiante, id_practica,
                                               id_evaluacionempresa)
                       \* hechos.id_evaluacionempresa REFERENCES evaluacion_empresa
                       sin_eval == ~\E x \in Filas(ev.db, "evaluacion_empresa") :
                                       x.id = id_evaluacionempresa
                       he == execute_insert(ev.db, ev.serial, "hechos",
                                 [ id |-> 0, id_estudiante |-> id_estudiante,
                                   id_practica |-> id_practica, id_empresa |-> id_empresa,
                                   id_tiempo |-> id_tiempo,
                                   id_evaluacionempresa |-> id_evaluacionempresa,
                                   id_rotacionempresa |-> 1, src |-> index ],
                                 FALSE, fh \/ sin_eval, gh)
                   IN  /\ PuedeFallar(Uno(fe) + Uno(fh))
                       /\ ~fe => ge
                       /\ fh => inserta /\ ~sin_eval
                       /\ ~inserta => ~gh
                       /\ inserta /\ ~fh => gh
                       /\ fallas' = fallas + Uno(fe) + Uno(fh)
                       /\ IF inserta
                          THEN /\ db' = he.db
                               /\ serial' = he.serial
                               /\ errores' = errores + Uno(~ev.ok) + Uno(~he.ok)
                               /\ avisos' = avisos
                          ELSE /\ db' = ev.db
                               /\ serial' = ev.serial
                               /\ errores' = errores + Uno(~ev.ok)
                               /\ avisos' = Append(avisos, index)
                       /\ i' = i + 1
                       /\ Iterado("hechos")
                       /\ UNCHANGED << pc, rubros, empresas_unicas, fechas_unicas, tablas >>
       \/ /\ i > Largo
          /\ Termina("disconnect")
          /\ UNCHANGED avisos
    /\ UNCHANGED << entradas, df_comentarios, conexion, pasadas, extractor, llamada >>

\* main's finally: disconnect() closes what is open. The first action is
\* disconnect() without its self.conn.close().
disconnect_sin_cerrar_conn ==
    /\ pc = "disconnect"
    /\ cur' = IF cur = "open" THEN "closed" ELSE cur
    /\ conn' = conn
    /\ Entrar("done")
    /\ UNCHANGED << entradas, df_comentarios, almacen, fallas, errores, avisos,
                    iterados, pasadas, extractor, llamada >>
disconnect ==
    /\ pc = "disconnect"
    /\ cur' = IF cur = "open" THEN "closed" ELSE cur
    /\ conn' = IF conn = "open" THEN "closed" ELSE conn
    /\ Entrar("done")
    /\ UNCHANGED << entradas, df_comentarios, almacen, fallas, errores, avisos,
                    iterados, pasadas, extractor, llamada >>

\* A caller that has loaded the dimensions loads them again on the same
\* store, with no wipe in between, before it loads the facts.
load_dimension_tables_again ==
    /\ pc = "facts"
    /\ pasadas < 2
    /\ Termina("dims")
    /\ UNCHANGED << entradas, df_comentarios, conexion, avisos, pasadas, extractor, llamada >>

Next ==
    \/ connect
    \/ drop_existing_tables
    \/ create_tables
    \/ extraer_comentarios_reales
    \/ load_dimension_tables
    \/ load_rubro
    \/ load_empresa
    \/ load_carrera
    \/ load_estudiante
    \/ load_tiempo
    \/ load_practica
    \/ load_fact_table
    \/ load_hechos
    \/ disconnect

Spec == Init /\ [][Next]_vars

NextRerun == Next \/ load_dimension_tables_again

SpecRerun == InitRerun /\ [][NextRerun]_vars

\* ------------------------------------------- the comment extractor alone
\* Values a cell of alumn_pract_eva_jef.csv may hold, and the rows made of
\* them: three candidate columns, and r_2_7, which is not a candidate.
ValoresEva ==
    { NA, "Si", "B", "1234567890123", "El desempeño fue excelente, muy puntual.",
      "EXCELENTE DESEMPEÑO.", " Buen trabajo, muy puntual. ", "Excelente alumno",
      "Muy bien 1", "Muy bien 10", "0123456789.", "Responsable." }
FilasEva ==
    { [ r_2_1 |-> a, r_2_2 |-> b, r_2_5 |-> c,
        r_2_7 |-> "Comentario fuera de lista, largo." ] : a, b, c \in ValoresEva }

\* main() as create_tables leaves it, about to call
\* extraer_comentarios_reales on a file of one row.
InitComentarios ==
    /\ pc = "extraer"
    /\ i = 1 /\ rubros = {} /\ empresas_unicas = {} /\ fechas_unicas = {}
    /\ csv_alumn = Ninguno
    /\ csv_eva \in { Archivo(<< fila >>) : fila \in FilasEva }
    /\ df_comentarios = Ninguno
    /\ conn = "open" /\ cur = "open"
    /\ tablas = Tablas /\ db = Vacia /\ serial = Ceros
    /\ fallas = 0 /\ errores = 0 /\ avisos = <<>>
    /\ iterados = [ l \in Loaders |-> 0 ]
    /\ pasadas = 0
    /\ InitExtractorIdle
    /\ llamada = SinLlamada

SpecComentarios == InitComentarios /\ [][extraer_comentarios_reales]_vars

\* ================================================================ ET.py
TABLAS == << "alumn_pract", "alumn_pract_eva_inf_pract", "alumn_pract_eva_jef" >>

\* JSON null in a text field; DataFrame.astype(str) writes it as "None".
JsonNull == "null"
\* The k-th row a provider table holds: a number, a text (padded, plain or
\* null), a date column in the date format and one, named in mixed case, in
\* the date-time format, and a text column whose name only resembles a
\* date's.
FilaProveedor(k) ==
    [ id |-> k,
      nomb_alum |-> IF k % 3 = 0 THEN JsonNull ELSE IF k % 2 = 1 THEN " Ana " ELSE "Eva",
      fech_ini_prac |-> IF k % 3 = 1 THEN "2024-04-15"
                        ELSE IF k % 3 = 2 THEN "0000-00-00" ELSE "pronto",
      Fecha_Termino |-> IF k % 4 = 1 THEN " 2024-07-01 00:00:00"
                        ELSE IF k % 4 = 2 THEN "0000-00-00 00:00:00"
                        ELSE IF k % 4 = 3 THEN "2024-02-30 00:00:00" ELSE JsonNull,
      fechado |-> " 2024-04-15 " ]
TablaProveedor(n) == [ k \in 1..n |-> FilaProveedor(k) ]

\* The provider's answer to (limit, offset): the rows offset ..
\* min(offset + limit, total) - 1 of the table and its total.
Respuesta(filas_tabla, lim, off) ==
    [ filas |-> SubSeq(filas_tabla, off + 1,
                       IF off + lim < Len(filas_tabla) THEN off + lim ELSE Len(filas_tabla)),
      total |-> Len(filas_tabla) ]

\* offset >= total, tested after offset += limit; the first operator is the
\* test made one page early, the second the test left out, the third the
\* test with a strict comparison.
fin_paginas_una_antes(off, lim, total) == off + lim >= total
fin_paginas_nunca(off, lim, total) == FALSE
fin_paginas_estricta(off, lim, total) == off > total
fin_paginas(off, lim, total) == off >= total

\* pd.api.types.is_object_dtype(df[c]): every column of the provider but the
\* numeric id holds texts (or null).
is_object_dtype(c) == c # "id"
\* c.lower().startswith(("fech_", "fecha_"))
posible_fecha(c) == StartsWith(Lower(c), "fech_") \/ StartsWith(Lower(c), "fecha_")
\* limpiar_df on one row: text columns are written as str and stripped, then
\* the fech_ / fecha_ columns lose the zero dates and are parsed, what does
\* not parse becoming NaT.
limpiar_fila(r) ==
    [ c \in DOMAIN r |->
        IF ~is_object_dtype(c) THEN r[c]
        ELSE LET texto == Strip(IF r[c] = JsonNull THEN "None" ELSE r[c])
             IN  IF ~posible_fecha(c) THEN texto
                 ELSE IF texto \in {"0000-00-00", "0000-00-00 00:00:00"} THEN NoFecha
                 ELSE to_datetime(texto) ]
limpiar_df(filas) == [ k \in 1..Len(filas) |-> limpiar_fila(filas[k]) ]

InitCargadorIdle ==
    /\ pc = "idle"
    /\ i = 1 /\ rubros = {} /\ empresas_unicas = {} /\ fechas_unicas = {}
    /\ csv_alumn = Ninguno /\ csv_eva = Ninguno /\ df_comentarios = Ninguno
    /\ conn = "none" /\ cur = "none"
    /\ tablas = {} /\ db = Vacia /\ serial = Ceros
    /\ fallas = 0 /\ errores = 0 /\ avisos = <<>>
    /\ iterados = [ l \in Loaders |-> 0 ]
    /\ pasadas = 0

InitET ==
    /\ InitCargadorIdle
    /\ epc = "get"
    /\ tabla_n = 1
    /\ offset = 0 /\ acumulado = <<>> /\ pagina = 1 /\ pedidos = <<>>
    /\ informados = <<>>
    /\ proveedor \in [ 1..Len(TABLAS) -> { TablaProveedor(n) : n \in 0..MaxFilas } ]
    /\ limit \in 1..MaxLimit
    /\ data = [ t \in 1..Len(TABLAS) |-> Ninguno ]
    /\ fallidas = {}
    /\ llamada = SinLlamada

\* One turn of the loop of descargar_tabla: a GET, then the page is added and
\* the loop goes on or ends. get_json raises on an HTTP error or a body that
\* is not JSON, descargar_tabla on a payload without 'filas'; nothing in
\* main catches either.
vuelta_descargar_tabla(payload) ==
    /\ epc = "get"
    /\ pedidos' = Append(pedidos, offset)
    /\ \/ /\ LET filas == payload.filas
                 total == payload.total
             IN  /\ informados' = Append(informados, total)
                 /\ IF filas = <<>>
                    THEN /\ epc' = "clean"
                         /\ UNCHANGED << offset, acumulado, pagina >>
                    ELSE /\ acumulado' = acumulado \o filas
                         /\ offset' = offset + limit
                         /\ pagina' = pagina + 1
                         /\ epc' = IF fin_paginas(offset + limit, limit, total)
                                   THEN "clean" ELSE "get"
          /\ UNCHANGED fallidas
       \/ /\ fallidas' = fallidas \cup {tabla_n}
          /\ epc' = "crashed"
          /\ UNCHANGED << offset, acumulado, pagina, informados >>
    /\ UNCHANGED << tabla_n, proveedor, limit, data, cargador, llamada >>

\* descargar_tabla against the provider of fixed rows.
descargar_tabla == vuelta_descargar_tabla(Respuesta(proveedor[tabla_n], limit, offset))

\* The rest of the body of main's loop for the table just downloaded
\* (limpiar_df, guardar_csv, the report), then the next table.
main_tabla ==
    /\ epc = "clean"
    /\ data' = [data EXCEPT ![tabla_n] = Archivo(limpiar_df(acumulado))]
    /\ IF tabla_n = Len(TABLAS)
       THEN /\ epc' = "done"
            /\ UNCHANGED << tabla_n, offset, acumulado, pagina, pedidos, informados >>
       ELSE /\ epc' = "get"
            /\ tabla_n' = tabla_n + 1
            /\ offset' = 0 /\ acumulado' = <<>> /\ pagina' = 1 /\ pedidos' = <<>>
            /\ informados' = <<>>
    /\ UNCHANGED << proveedor, limit, fallidas, cargador, llamada >>

NextET == descargar_tabla \/ main_tabla

SpecET == InitET /\ [][NextET]_vars

\* ------------------------------------------- descargar_tabla, any provider
\* A provider that answers each request with a well-formed payload of its
\* own choosing: a page of any length up to MaxFilas, and any total up to
\* MaxTotal, which may change from one response to the next.
RespuestasLibres ==
    { [ filas |-> TablaProveedor(n), total |-> t ] : n \in 0..MaxFilas, t \in 0..MaxTotal }
descargar_tabla_libre ==
    \E payload \in RespuestasLibres : vuelta_descargar_tabla(payload)
\* One call of descargar_tabla, for the first table.
InitLibre ==
    /\ InitCargadorIdle
    /\ epc = "get"
    /\ tabla_n = 1
    /\ offset = 0 /\ acumulado = <<>> /\ pagina = 1 /\ pedidos = <<>>
    /\ informados = <<>>
    /\ proveedor = [ t \in 1..Len(TABLAS) |-> <<>> ]
    /\ limit \in 1..MaxLimit
    /\ data = [ t \in 1..Len(TABLAS) |-> Ninguno ]
    /\ fallidas = {}
    /\ llamada = SinLlamada

SpecLibre == InitLibre /\ [][descargar_tabla_libre]_vars

\* ------------------------------------------------- _mapear_carrera alone
\* Career names as a record may hold them: the keys of the alias table as
\* they are, in lower case, capitalized and padded, names that are no alias,
\* and the missing value.
EntradasCarrera ==
    { NA,
      "INGENIERIA EN INFORMACION Y CONTROL DE GESTION",
      "ingenieria en informacion y control de gestion",
      "  Ingenieria en informacion y control de gestion ",
      "Ingenieria En Informacion Y Control De Gestion ",
      "ING. EN INFORMACIÓN Y CONTROL DE GESTIÓN",
      "ing. en información y control de gestión",
      "  Ing. en información y control de gestión ",
      "Ing. En Información Y Control De Gestión ",
      "INGENIERÍA EN INFORMACIÓN Y CONTROL DE GESTIÓN",
      "ingeniería en información y control de gestión",
      "  Ingeniería en información y control de gestión ",
      "Ingeniería En Información Y Control De Gestión ",
      "ING. INFORMACION Y CONTROL DE GESTION",
      "ing. informacion y control de gestion",
      "  Ing. informacion y control de gestion ",
      "Ing. Informacion Y Control De Gestion ",
      "INGENIERIA INFORMACION Y CONTROL GESTION",
      "ingenieria informacion y control gestion",
      "  Ingenieria informacion y control gestion ",
      "Ingenieria Informacion Y Control Gestion ", "IICG", "iicg", "  Iicg ",
      "Iicg ", "INGENIERIA EN INFORMACION Y CONTROL DE GESTIÓN",
      "ingenieria en informacion y control de gestión",
      "  Ingenieria en informacion y control de gestión ",
      "Ingenieria En Informacion Y Control De Gestión ",
      "INGENIERIA COMERCIAL", "ingenieria comercial",
      "  Ingenieria comercial ", "Ingenieria Comercial ", "ING. COMERCIAL",
      "ing. comercial", "  Ing. comercial ", "Ing. Comercial ",
      "INGENIERÍA COMERCIAL", "ingeniería comercial",
      "  Ingeniería comercial ", "Ingeniería Comercial ", "ING COMERCIAL",
      "ing comercial", "  Ing comercial ", "Ing Comercial ", "IC", "ic",
      "  Ic ", "Ic ", "", " ", "DERECHO", "Contador Auditor",
      "ING.COMERCIAL", "ING.  COMERCIAL", "I C", "ICC", "INGENIERIA",
      "COMERCIAL", "Ingenieria Comercial (vespertino)",
      "ingenieria  comercial", "IC.", "iicg-2", "INGENIERIA CIVIL",
      "desconocida", "unknown" }

\* A caller holds a DataLoader and is about to call _mapear_carrera.
InitMapeo ==
    /\ InitCargadorIdle
    /\ InitExtractorIdle
    /\ llamada \in { [ fn |-> "_mapear_carrera", arg |-> x, res |-> "", vuelta |-> FALSE ] :
                        x \in EntradasCarrera }

\* self._mapear_carrera(arg) returns.
llamar_mapear_carrera ==
    /\ llamada.fn = "_mapear_carrera"
    /\ ~llamada.vuelta
    /\ llamada' = [ llamada EXCEPT !.res = mapear_carrera(llamada.arg),
                                    !.vuelta = TRUE ]
    /\ UNCHANGED << cargador, extractor >>

SpecMapeo == InitMapeo /\ [][llamar_mapear_carrera]_vars

\* ------------------------------------------------------ _load_tiempo alone
\* A record whose practice starts on the 15th of month m and ends on fin; it
\* names no person, organization, rubric or career.
FechaDelMes(m) == "2024-" \o (IF m < 10 THEN "0" ELSE "") \o ToString(m) \o "-15"
FinesDePractica == { NA, "0000-00-00", "2024-07-01 00:00:00", "2025-12-31" }
RegistroFechado(m, fin) ==
    [ rut_alum |-> NA, nomb_alum |-> "Luz", nomb_empr_prac |-> NA,
      act_econo_empresa |-> NA, fech_ini_prac |-> FechaDelMes(m),
      fech_fin_prac |-> fin, carr_alum |-> NA ]
\* main() as _load_tiempo begins on a snapshot of one such record: the tables
\* are created, the two official careers are in, and the loaders before it
\* have gone through the record without a row to insert.
InitTiempo ==
    /\ pc = "tiempo"
    /\ i = 1 /\ rubros = {} /\ empresas_unicas = {}
    /\ csv_alumn \in { Archivo(<< RegistroFechado(m, fin) >>) :
                          m \in 1..12, fin \in FinesDePractica }
    /\ fechas_unicas = FechasDe(csv_alumn.filas)
    /\ csv_eva = Ninguno /\ df_comentarios = Ninguno
    /\ conn = "open" /\ cur = "open"
    /\ tablas = Tablas
    /\ db = [ Vacia EXCEPT !["carrera"] =
                 [ k \in 1..Len(carreras_oficiales) |->
                     [ id |-> k, nombrecarrera |-> carreras_oficiales[k],
                       escuela |-> "Escuela de Ciencias Empresariales" ] ] ]
    /\ serial = [ Ceros EXCEPT !["carrera"] = Len(carreras_oficiales) ]
    /\ fallas = 0 /\ errores = 0 /\ avisos = <<>>
    /\ iterados = [ l \in Loaders |-> IF l \in { "empresa", "estudiante" } THEN 1 ELSE 0 ]
    /\ pasadas = 1
    /\ InitExtractorIdle
    /\ llamada = SinLlamada

SpecTiempo == InitTiempo /\ [][load_tiempo]_vars


\* ------------------------------------------------- a run on a longer file
\* main() on a snapshot one record longer than those of Init, so that a
\* record skipped by _load_practica has records after it that get a Fact.
InitLargo ==
    /\ pc = "connect"
    /\ i = 1 /\ rubros = {} /\ empresas_unicas = {} /\ fechas_unicas = {}
    /\ csv_alumn \in { Archivo(f) : f \in { g \in SinRepetir(Registros, MaxRecs + 1) :
                                                Len(g) = MaxRecs + 1 } }
    /\ csv_eva = Archivo(<< E_Real >>)
    /\ df_comentarios = Ninguno
    /\ conn = "none" /\ cur = "none"
    /\ tablas = Tablas /\ db = DbPrevia /\ serial = SerialPrevia
    /\ fallas = 0 /\ errores = 0 /\ avisos = <<>>
    /\ iterados = [ l \in Loaders |-> 0 ]
    /\ pasadas = 0
    /\ InitExtractorIdle
    /\ llamada = SinLlamada

SpecLargo == InitLargo /\ [][Next]_vars


\* =============================================================== claims
Hechos == db["hechos"]
HechosDe(index) == { n \in 1..Len(Hechos) : Hechos[n].src = index }
Veces(sec, x) == Cardinality({ n \in 1..Len(sec) : sec[n] = x })
\* main() of the loader has ended and had reached the loaders.
CargaTerminada == pc = "done" /\ pasadas > 0

\* C1 (SpecET): against a provider that answers every (limit, offset) with
\* the matching slice of its fixed rows and their count, descargar_tabla
\* returns exactly the provider's rows, each once and in provider order, so
\* as many records as the reported total.
C1_DescargaCompleta ==
    epc = "clean" =>
        /\ acumulado = proveedor[tabla_n]
        /\ Len(acumulado) = Respuesta(proveedor[tabla_n], limit, 0).total
\* Three rows fetched with page size 2: a full page, then a partial one.
C1_Witness ==
    /\ epc = "clean" /\ limit = 2
    /\ Len(acumulado) = 3 /\ pedidos = << 0, 2 >>

\* C2 (Spec): in a run of main() in which no store statement failed, the
\* fact load has inserted exactly one Fact row for every snapshot record that
\* has a person identifier and none for the others; a record whose
\* organization or start date resolves to nothing still gets its Fact row,
\* with a null in that foreign key.
C2_UnHechoPorRegistro ==
    (pc = "done" /\ pasadas > 0 /\ errores = 0 /\ fallas = 0) =>
        /\ \A k \in 1..Largo :
              Cardinality(HechosDe(k - 1)) = IF df[k].rut_alum # NA THEN 1 ELSE 0
        /\ Len(Hechos) = Cardinality({ k \in 1..Largo : df[k].rut_alum # NA })
        /\ \A n \in 1..Len(Hechos) :
              LET row == df[Hechos[n].src + 1]
              IN  /\ row.nomb_empr_prac = NA => Hechos[n].id_empresa = Null
                  /\ parse_fecha(row.fech_ini_prac) = NoFecha =>
                        Hechos[n].id_tiempo = Null
\* Two records; the one without organization and with a start date that does
\* not parse has its Fact row, the one without identifier has none.
C2_Witness ==
    /\ pc = "done" /\ pasadas > 0 /\ errores = 0 /\ fallas = 0
    /\ Largo = 2
    /\ \E n \in 1..Len(Hechos) :
          /\ Hechos[n].id_empresa = Null /\ Hechos[n].id_tiempo = Null
          /\ df[Hechos[n].src + 1].rut_alum # NA
    /\ \E k \in 1..Largo : df[k].rut_alum = NA /\ HechosDe(k - 1) = {}

\* C3 (Spec), the claim as stated: after the fact load, every Evaluation row
\* is referenced by exactly one Fact row, and no two Fact rows share one.
C3_EvaluacionUnoAUno ==
    CargaTerminada =>
        \A e \in Filas(db, "evaluacion_empresa") :
            Cardinality({ n \in 1..Len(Hechos) :
                            Hechos[n].id_evaluacionempresa = e.id }) = 1

\* C4 (Spec): every Fact row of the store has non-null Person and Practice
\* keys that are keys of existing Person and Practice rows (and a non-null
\* Evaluation key): the Fact INSERT is sent only with the three keys found.
C4_HechoConPersonaYPractica ==
    \A h \in Filas(db, "hechos") :
        /\ h.id_estudiante # Null /\ h.id_practica # Null
        /\ h.id_evaluacionempresa # Null
        /\ \E e \in Filas(db, "estudiante") : e.id = h.id_estudiante
        /\ \E q \in Filas(db, "practica") : q.id = h.id_practica
\* Fact rows exist next to a record whose Person was not found.
C4_Witness ==
    /\ pc = "done"
    /\ Len(Hechos) >= 1
    /\ avisos # <<>>

\* C5 (SpecRerun): when load_dimension_tables runs a second time on the same
\* snapshot with no wipe in between, no two Rubric, Career, Person or
\* TimePeriod rows ever share a natural key, and the second pass leaves every
\* row of those tables as it was (it only ever adds rows).
SinClaveRepetida(t, clave) ==
    \A a, b \in 1..Len(db[t]) : a # b => db[t][a][clave] # db[t][b][clave]
SinDuplicados ==
    /\ SinClaveRepetida("rubro", "nombrerubro")
    /\ SinClaveRepetida("carrera", "nombrecarrera")
    /\ SinClaveRepetida("estudiante", "rut_alumno")
    /\ SinClaveRepetida("tiempo", "fechacompleta")
ConClaveNatural == { "rubro", "carrera", "estudiante", "tiempo" }
FilasIntactas ==
    pasadas = 2 =>
        \A t \in ConClaveNatural :
            /\ Len(db'[t]) >= Len(db[t])
            /\ SubSeq(db'[t], 1, Len(db[t])) = db[t]
C5_CargaRepetida == [][(pasadas' >= 1 => SinDuplicados') /\ FilasIntactas]_vars
\* The second pass is over, on a snapshot of two records that name the same
\* person and rubric: one row of each.
C5_Witness ==
    /\ pasadas = 2 /\ pc = "facts"
    /\ Largo = 2 /\ iterados["estudiante"] = 4
    /\ Len(db["estudiante"]) = 1 /\ Len(db["rubro"]) = 1
    /\ Len(db["carrera"]) = 2 /\ Len(db["tiempo"]) = 2
    /\ fallas = 0

\* C6 (SpecET), the claim as stated: a table whose extraction fails is the
\* only one lost; when the run has ended, every other table of TABLAS has its
\* snapshot.
C6_SoloLaTablaFallida ==
    epc \in {"done", "crashed"} =>
        \A t \in 1..Len(TABLAS) : t \notin fallidas => data[t].existe

\* C7 (Spec): when every Practice INSERT of the run succeeded, the Fact row
\* built from the record at position N holds the key of the Practice row
\* built from that same record.
C7_PracticaDelMismoRegistro ==
    (pasadas = 1 /\ Len(db["practica"]) = iterados["practica"]) =>
        \A h \in Filas(db, "hechos") :
            \E q \in Filas(db, "practica") : q.id = h.id_practica /\ q.src = h.src
\* The Fact of the second record points at the second Practice row.
C7_Witness ==
    /\ pasadas = 1 /\ Len(db["practica"]) = iterados["practica"]
    /\ \E h \in Filas(db, "hechos") : h.src = 1 /\ h.id_practica = 2

\* C8 (Spec), the claim as stated: the Evaluation row of the Fact of the
\* record at position N holds the comment synthesized for that position.
C8_ComentarioSintetizado ==
    \A h \in Filas(db, "hechos") :
        (df_comentarios.existe /\ h.src < Len(df_comentarios.filas)) =>
            \E e \in Filas(db, "evaluacion_empresa") :
                /\ e.id = h.id_evaluacionempresa
                /\ e.comentario = df_comentarios.filas[h.src + 1]
\* C8 (Spec), amended: the Evaluation row of the Fact of the record at
\* position N holds "Evaluación N+1: " followed by the first 200 characters
\* of the comment synthesized for position N of the evaluation snapshot, when
\* there is such a row and its comment is not the sentinel; otherwise it
\* holds "Evaluación profesional N+1 - Práctica estudiantil".
ComentarioEsperado(index) ==
    LET n == ToString(index + 1)
        hay == df_comentarios.existe /\ index + 1 <= Len(df_comentarios.filas)
        c == df_comentarios.filas[index + 1]
    IN  IF hay /\ c # SinComentarios
        THEN "Evaluación " \o n \o ": " \o
                (IF Len(c) > 200 THEN SubSeq(c, 1, 200) ELSE c)
        ELSE "Evaluación profesional " \o n \o " - Práctica estudiantil"
C8_ComentarioRotulado ==
    \A h \in Filas(db, "hechos") :
        \E e \in Filas(db, "evaluacion_empresa") :
            /\ e.id = h.id_evaluacionempresa
            /\ e.comentario = ComentarioEsperado(h.src)
\* A Fact whose record has a synthesized comment of more than 200 characters.
C8_Witness ==
    \E h \in Filas(db, "hechos") :
        /\ df_comentarios.existe /\ h.src < Len(df_comentarios.filas)
        /\ Len(df_comentarios.filas[h.src + 1]) > 200

\* C9 (Spec), the claim as stated: when the fact load has gone through the
\* snapshot, every record it inserted no Fact row for has exactly one
\* warning.
C9_UnAvisoPorOmitido ==
    (CargaTerminada /\ iterados["hechos"] = Largo) =>
        \A k \in 1..Largo : HechosDe(k - 1) = {} => Veces(avisos, k - 1) = 1

\* C10 (Spec), the claim as stated: a store statement that fails costs one
\* record only; every loader that goes through the snapshot goes through all
\* of it.
C10_NingunLoaderAbortado ==
    CargaTerminada => \A l \in Loaders : iterados[l] = Largo

\* C11 (SpecComentarios): the comment synthesized for one evaluation row is
\* the " | "-join, in column order, of the trimmed values of the candidate
\* columns that qualify, and the sentinel when none does. Of the values drawn,
\* these qualify: the text with a comma and a period (verbatim), the padded
\* text (trimmed), the eleven-character texts "Muy bien 10" and
\* "0123456789.", and "Responsable."; "Si", "B", the digits alone, the text
\* all in capitals, the text of letters and spaces only, the ten-character
\* text and a missing value do not. r_2_7 is not a candidate column.
C11_Aceptado(v) ==
    IF v = NA THEN ""
    ELSE IF v = " Buen trabajo, muy puntual. " THEN "Buen trabajo, muy puntual."
    ELSE IF v \in { "El desempeño fue excelente, muy puntual.", "Muy bien 10",
                    "0123456789.", "Responsable." } THEN v
    ELSE ""
C11_Unidos(a, b, c) ==
    LET ab == IF a = "" THEN b ELSE IF b = "" THEN a ELSE a \o " | " \o b
    IN  IF ab = "" THEN c ELSE IF c = "" THEN ab ELSE ab \o " | " \o c
C11_Esperado(fila) ==
    LET u == C11_Unidos(C11_Aceptado(fila.r_2_1), C11_Aceptado(fila.r_2_2),
                        C11_Aceptado(fila.r_2_5))
    IN  IF u = "" THEN "Sin comentarios específicos" ELSE u
C11_ComentarioDeLaFila ==
    df_comentarios.existe =>
        /\ Len(df_comentarios.filas) = Len(csv_eva.filas)
        /\ \A k \in 1..Len(csv_eva.filas) :
              df_comentarios.filas[k] = C11_Esperado(csv_eva.filas[k])
\* A row with two qualifying values around one that does not.
C11_Witness ==
    /\ df_comentarios.existe
    /\ csv_eva.filas[1].r_2_1 = " Buen trabajo, muy puntual. "
    /\ csv_eva.filas[1].r_2_2 = "EXCELENTE DESEMPEÑO."
    /\ csv_eva.filas[1].r_2_5 = "El desempeño fue excelente, muy puntual."
    /\ df_comentarios.filas[1] =
          "Buen trabajo, muy puntual. | El desempeño fue excelente, muy puntual."

\* C12 (SpecMapeo): _mapear_carrera returns for every input, and what it
\* returns is one of the two canonical labels: 'INGENIERIA COMERCIAL' for the
\* inputs that, trimmed and in upper case, are a key of the alias table that
\* stands for it (they are listed), and the default label for every other
\* input, the missing one included; each canonical label gives itself.
C12_EsperanIC ==
    {
      "INGENIERIA COMERCIAL", "ingenieria comercial",
      "  Ingenieria comercial ", "Ingenieria Comercial ", "ING. COMERCIAL",
      "ing. comercial", "  Ing. comercial ", "Ing. Comercial ",
      "INGENIERÍA COMERCIAL", "ingeniería comercial",
      "  Ingeniería comercial ", "Ingeniería Comercial ", "ING COMERCIAL",
      "ing comercial", "  Ing comercial ", "Ing Comercial ", "IC", "ic",
      "  Ic ", "Ic " }
C12_MapeoTotal ==
    /\ (llamada.fn = "_mapear_carrera" /\ ~llamada.vuelta) => ENABLED llamar_mapear_carrera
    /\ (llamada.fn = "_mapear_carrera" /\ llamada.vuelta) =>
          /\ llamada.res \in { "INGENIERIA COMERCIAL",
                               "INGENIERIA EN INFORMACION Y CONTROL DE GESTION" }
          /\ llamada.res = IF llamada.arg \in C12_EsperanIC
                           THEN "INGENIERIA COMERCIAL"
                           ELSE "INGENIERIA EN INFORMACION Y CONTROL DE GESTION"
          /\ llamada.arg \in { "INGENIERIA COMERCIAL",
                                "INGENIERIA EN INFORMACION Y CONTROL DE GESTION" }
                => llamada.res = llamada.arg
\* "  Ic ", padded and in mixed case, has returned the commercial label.
C12_Witness ==
    /\ llamada.fn = "_mapear_carrera" /\ llamada.vuelta
    /\ llamada.arg = "  Ic "
    /\ llamada.res = "INGENIERIA COMERCIAL"

\* C13 (SpecET): the requests of descargar_tabla for one table carry the
\* offsets 0, limit, 2*limit, ... in that order; every request but the last
\* was answered by a non-empty page with the next offset below the reported
\* total, the loop goes on exactly while that is so, and it has ended after
\* the first answer that is empty or leaves the next offset at or above the
\* total.
C13_Pagina(k) == Respuesta(proveedor[tabla_n], limit, pedidos[k])
C13_Sigue(k) ==
    /\ C13_Pagina(k).filas # <<>>
    /\ pedidos[k] + limit < C13_Pagina(k).total
C13_OffsetsCrecientes ==
    epc \in {"get", "clean"} =>
        /\ \A k \in 1..Len(pedidos) : pedidos[k] = (k - 1) * limit
        /\ \A k \in 1..(Len(pedidos) - 1) : C13_Sigue(k)
        /\ (epc = "get" /\ pedidos # <<>>) =>
              C13_Sigue(Len(pedidos)) /\ offset = pedidos[Len(pedidos)] + limit
        /\ epc = "clean" => pedidos # <<>> /\ ~C13_Sigue(Len(pedidos))
\* Three rows fetched one by one: three requests, and the loop has ended.
C13_Witness ==
    /\ epc = "clean" /\ limit = 1
    /\ pedidos = << 0, 1, 2 >>
    /\ Len(proveedor[tabla_n]) = 3

\* C14 (Spec): main() ends only through disconnect(), whatever step raised
\* or none, and the step that ends it leaves neither the connection nor the
\* cursor open.
C14_SiempreDesconecta ==
    [][ (pc' = "done" /\ pc # "done") =>
            /\ pc = "disconnect"
            /\ conn' # "open" /\ cur' # "open" ]_vars
\* The run has ended after a step raised with connection and cursor open:
\* both are closed.
C14_Witness ==
    /\ pc = "done"
    /\ conn = "closed" /\ cur = "closed"
    /\ fallas > 0 /\ pasadas = 0

\* C15 (Spec): a CREATE TABLE that fails ends the run: the step creates no
\* table and hands over to disconnect, after which nothing is created or
\* loaded and the run is over; a step of a loader in which an INSERT failed
\* leaves that loader running.
C15_EnCarga ==
    pc \in { "rubro", "empresa", "carrera", "estudiante", "tiempo", "practica", "hechos" }
C15_InsertFallido ==
    /\ C15_EnCarga
    /\ errores' > errores
    /\ \/ pc \in Loaders /\ iterados'[pc] = iterados[pc] + 1
       \/ pc = "rubro" /\ rubros' # rubros
       \/ pc = "tiempo" /\ fechas_unicas' # fechas_unicas
       \/ pc = "carrera" /\ i' = i + 1
C15_CreacionFatal ==
    [][ /\ (pc = "create" /\ tablas' = tablas) => pc' = "disconnect"
        /\ pc = "disconnect" =>
              /\ pc' = "done"
              /\ tablas' = tablas /\ db' = db /\ serial' = serial
              /\ iterados' = iterados /\ pasadas' = pasadas
        /\ pc # "done"
        /\ C15_InsertFallido => pc' = pc ]_vars
\* The run is over with the first tables created and not the last, and no
\* loader ran.
C15_Witness ==
    /\ pc = "done"
    /\ tablas # {} /\ tablas # Tablas
    /\ "rubro" \in tablas /\ "hechos" \notin tablas
    /\ pasadas = 0 /\ db = Vacia

\* C16 (Spec): in the one Organization pass of a run, which starts on the
\* empty table, no two Organization rows have the same trimmed name; each row
\* was built from the first record of the snapshot with that name (so it has
\* that record's address, city and classification tag) and holds the key of
\* the Rubric row named by that record, or null when there is none; and when
\* no statement was made to fail, every named organization has its row, an
\* unresolved Rubric included.
C16_Trim(s) == RStrip(LStrip(s))
C16_Nombrado(k) == df[k].nomb_empr_prac # NA
C16_RubroDe(k) ==
    IF df[k].act_econo_empresa # NA
       /\ \E r \in Filas(db, "rubro") : r.nombrerubro = C16_Trim(df[k].act_econo_empresa)
    THEN (CHOOSE r \in Filas(db, "rubro") :
             r.nombrerubro = C16_Trim(df[k].act_econo_empresa)).id
    ELSE Null
C16_EmpresaPorNombre ==
    /\ \A a, b \in 1..Len(db["empresa"]) :
          a # b => C16_Trim(db["empresa"][a].nombre) # C16_Trim(db["empresa"][b].nombre)
    /\ \A e \in Filas(db, "empresa") :
          LET k == e.src + 1
          IN  /\ k \in 1..Largo
              /\ C16_Nombrado(k) /\ e.nombre = C16_Trim(df[k].nomb_empr_prac)
              /\ \A j \in 1..(k - 1) :
                    C16_Nombrado(j) => C16_Trim(df[j].nomb_empr_prac) # e.nombre
              /\ e.id_rubro = C16_RubroDe(k)
    /\ (fallas = 0 /\ iterados["empresa"] = Largo) =>
          \A k \in 1..Largo :
              C16_Nombrado(k) =>
                  \E e \in Filas(db, "empresa") : e.nombre = C16_Trim(df[k].nomb_empr_prac)
\* Two records name the same organization, the second with a trailing blank:
\* one row, built from the first, with its Rubric.
C16_Witness ==
    /\ Largo = 2 /\ iterados["empresa"] = 2
    /\ C16_Nombrado(1) /\ C16_Nombrado(2)
    /\ df[1].nomb_empr_prac # df[2].nomb_empr_prac
    /\ Len(db["empresa"]) = 1
    /\ db["empresa"][1].src = 0 /\ db["empresa"][1].id_rubro # Null

\* C17 (SpecET): the snapshot written for a table is the cleaned batch: an
\* empty batch gives an empty snapshot; otherwise it has one row per record,
\* no text of it starts or ends with a blank, and in the columns named
\* fech_... or fecha_..., in any case, the zero dates and what is no date are
\* missing and every date is that date (the values the provider holds are
\* listed with what they must become); other columns keep their value.
C17_Texto(v) ==
    IF v = " Ana " THEN "Ana" ELSE IF v = " 2024-04-15 " THEN "2024-04-15" ELSE v
C17_Fecha(v) ==
    IF v = "2024-04-15" THEN << 2024, 4, 15 >>
    ELSE IF v = " 2024-07-01 00:00:00" THEN << 2024, 7, 1 >>
    ELSE << >>
C17_SinBlancos(t) == t = "" \/ (SubSeq(t, 1, 1) # " " /\ SubSeq(t, Len(t), Len(t)) # " ")
C18_Trimestres == << 1, 1, 1, 2, 2, 2, 3, 3, 3, 4, 4, 4 >>
C18_Semestres == << 1, 1, 1, 1, 1, 1, 2, 2, 2, 2, 2, 2 >>
C18_TiempoDerivado ==
    \A n \in 1..Len(db["tiempo"]) :
        LET x == db["tiempo"][n]
            m == x.fechacompleta[2]
        IN  /\ m \in 1..12
            /\ x.mes = m
            /\ x.anno = x.fechacompleta[1]
            /\ x.trimestre = C18_Trimestres[m]
            /\ x.semestre = C18_Semestres[m]
            /\ x.trimestre \in 1..4
            /\ x.semestre \in 1..2
            /\ (x.semestre = 1 <=> x.trimestre <= 2)
\* _load_tiempo has returned, with a row of month 4 (quarter 2, first half)
\* and a row of month 7 (quarter 3, second half).
C18_Witness ==
    /\ pc = "practica"
    /\ \E x, y \in Filas(db, "tiempo") :
          /\ x.mes = 4 /\ x.trimestre = 2 /\ x.semestre = 1
          /\ y.mes = 7 /\ y.trimestre = 3 /\ y.semestre = 2

\* C19: when the practica INSERT of a record failed and the loader went on,
\* the fact load does not notice: the Fact of that record and of every later
\* record takes the practica row at the position of its index in key order,
\* which was built from a different record, and the step that inserts such a
\* Fact emits no warning and no error of its own.
C19_Saltado(k) ==
    /\ ~\E q \in Filas(db, "practica") : q.src = k
    /\ \E q \in Filas(db, "practica") : q.src > k
C19_PasoDeHechos ==
    \A h \in Filas(db', "hechos") \ Filas(db, "hechos") :
        (\E k \in 0..h.src : C19_Saltado(k)) =>
            /\ h.src + 1 <= Len(db["practica"])
            /\ h.id_practica = db["practica"][h.src + 1].id
            /\ \A n \in 1..h.src : db["practica"][n].id < h.id_practica
            /\ db["practica"][h.src + 1].src # h.src
            /\ avisos' = avisos
            /\ \/ errores' = errores
               \/ Len(db'["evaluacion_empresa"]) = Len(db["evaluacion_empresa"])
C19_DivergenciaSilenciosa == [][C19_PasoDeHechos]_vars
\* The practica INSERT of the first record failed, those of the second and
\* third did not: the Fact of the second record points at the practica row
\* of the third, and nothing was logged but the failed INSERT.
C19_Witness ==
    /\ pc = "done" /\ pasadas = 1 /\ Largo = MaxRecs + 1
    /\ C19_Saltado(0)
    /\ \E h \in Filas(db, "hechos"), q \in Filas(db, "practica") :
          /\ h.src = 1 /\ q.id = h.id_practica /\ q.src = 2
    /\ \A n \in 1..Len(avisos) : avisos[n] # 1
    /\ errores = 1

\* C20: whatever well-formed responses the provider gives (pages of any
\* length, totals that change between responses), if every total reported is
\* at most T then descargar_tabla makes at most max(1, ceil(T/limit))
\* requests: it has left its loop by then.
C20_Techo(a, b) == (a + b - 1) \div b
C20_Cota(T) == IF C20_Techo(T, limit) > 1 THEN C20_Techo(T, limit) ELSE 1
C20_PedidosAcotados ==
    \A T \in 0..MaxTotal :
        (\A n \in 1..Len(informados) : informados[n] <= T) =>
            /\ Len(pedidos) <= C20_Cota(T)
            /\ epc = "get" => Len(pedidos) < C20_Cota(T)
\* The loop ended at the bound, which is more than one request, after
\* responses whose totals differed and a page longer than the page size.
C20_Witness ==
    /\ epc = "clean"
    /\ \E T \in 2..MaxTotal :
          /\ \A n \in 1..Len(informados) : informados[n] <= T
          /\ \E n \in 1..Len(informados) : informados[n] = T
          /\ Len(pedidos) = C20_Cota(T)
          /\ C20_Cota(T) > 1
    /\ \E a, b \in 1..Len(informados) : informados[a] # informados[b]
    /\ Len(acumulado) > Len(pedidos) * limit
====
